---- MODULE Spec2Model ----
(***************************************************************************)
(* Model of the ChunkHound documentation site:                             *)
(*   - astro.config.mjs: the site configuration record passed to           *)
(*     defineConfig (redirects, Starlight options, head tags, sidebar);    *)
(*   - the LatestChanges React component: a render function from an        *)
(*     optional className to an element tree.                              *)
(*                                                                         *)
(* Text produced by a template literal (the root class attribute) is a     *)
(* sequence of one-character strings, so that concatenation and class      *)
(* tokens are computed rather than assumed.  Fixed text is a TLA+ string.  *)
(* Non-ASCII glyphs are written by code point, e.g. "U+1F50D".             *)
(***************************************************************************)
EXTENDS Integers, Sequences, FiniteSets, TLC

VARIABLES config, log

vars == <<config, log>>

(***************************************************************************)
(* Bound of the exploration: the number of render calls followed.          *)
(***************************************************************************)
MaxRenders == 2

(***************************************************************************)
(* astro.config.mjs                                                        *)
(***************************************************************************)
\* Variants of the redirects map: a chain, and the pair reversed.
redirectsChained ==
  ("/code-expert-agent" :> "/code-research") @@ ("/code-research" :> "/research")

redirectsReversed == ("/code-research" :> "/code-expert-agent")

\* Variant of the redirects map whose target is no page of the site.
redirectsDangling == ("/code-expert-agent" :> "/research")

redirects == ("/code-expert-agent" :> "/code-research")

\* Variant of the head tags whose Twitter image is written as a second
\* og:image property.
headDuplicateImage ==
  << [tag |-> "meta", attrs |-> [property |-> "og:image", content |-> "https://chunkhound.github.io/og-image.png"]],
     [tag |-> "meta", attrs |-> [property |-> "og:image:width", content |-> "1200"]],
     [tag |-> "meta", attrs |-> [property |-> "og:image:height", content |-> "630"]],
     [tag |-> "meta", attrs |-> [property |-> "og:type", content |-> "website"]],
     [tag |-> "meta", attrs |-> [name |-> "twitter:card", content |-> "summary_large_image"]],
     [tag |-> "meta", attrs |-> [property |-> "og:image", content |-> "https://chunkhound.github.io/og-image.png"]] >>

head ==
  << [tag |-> "meta", attrs |-> [property |-> "og:image", content |-> "https://chunkhound.github.io/og-image.png"]],
     [tag |-> "meta", attrs |-> [property |-> "og:image:width", content |-> "1200"]],
     [tag |-> "meta", attrs |-> [property |-> "og:image:height", content |-> "630"]],
     [tag |-> "meta", attrs |-> [property |-> "og:type", content |-> "website"]],
     [tag |-> "meta", attrs |-> [name |-> "twitter:card", content |-> "summary_large_image"]],
     [tag |-> "meta", attrs |-> [name |-> "twitter:image", content |-> "https://chunkhound.github.io/og-image.png"]] >>

\* Variants of the sidebar: a label used twice, and an entry with both a
\* slug and a link.
sidebarDuplicateLabel ==
  << [label |-> "Quickstart", slug |-> "quickstart"],
     [label |-> "How-To Guides", slug |-> "how-to"],
     [label |-> "Configuration", slug |-> "configuration"],
     [label |-> "Code Research", slug |-> "code-research"],
     [label |-> "Code Research", slug |-> "benchmark"],
     [label |-> "Under the Hood", slug |-> "under-the-hood"],
     [label |-> "Origin Story", slug |-> "origin-story"],
     [label |-> "Contributing", slug |-> "contributing"],
     [label |-> "Changelog", link |-> "/changelog"] >>

sidebarSlugAndLink ==
  << [label |-> "Quickstart", slug |-> "quickstart"],
     [label |-> "How-To Guides", slug |-> "how-to"],
     [label |-> "Configuration", slug |-> "configuration"],
     [label |-> "Code Research", slug |-> "code-research"],
     [label |-> "Benchmark", slug |-> "benchmark"],
     [label |-> "Under the Hood", slug |-> "under-the-hood"],
     [label |-> "Origin Story", slug |-> "origin-story"],
     [label |-> "Contributing", slug |-> "contributing"],
     [label |-> "Changelog", slug |-> "changelog", link |-> "/changelog"] >>

\* Variant of the sidebar whose Code Research entry keeps its old slug.
sidebarOldSlug ==
  << [label |-> "Quickstart", slug |-> "quickstart"],
     [label |-> "How-To Guides", slug |-> "how-to"],
     [label |-> "Configuration", slug |-> "configuration"],
     [label |-> "Code Research", slug |-> "code-expert-agent"],
     [label |-> "Benchmark", slug |-> "benchmark"],
     [label |-> "Under the Hood", slug |-> "under-the-hood"],
     [label |-> "Origin Story", slug |-> "origin-story"],
     [label |-> "Contributing", slug |-> "contributing"],
     [label |-> "Changelog", link |-> "/changelog"] >>

\* Variant of the sidebar whose Benchmark entry repeats the slug of the
\* entry above it.
sidebarDuplicateSlug ==
  << [label |-> "Quickstart", slug |-> "quickstart"],
     [label |-> "How-To Guides", slug |-> "how-to"],
     [label |-> "Configuration", slug |-> "configuration"],
     [label |-> "Code Research", slug |-> "code-research"],
     [label |-> "Benchmark", slug |-> "code-research"],
     [label |-> "Under the Hood", slug |-> "under-the-hood"],
     [label |-> "Origin Story", slug |-> "origin-story"],
     [label |-> "Contributing", slug |-> "contributing"],
     [label |-> "Changelog", link |-> "/changelog"] >>

sidebar ==
  << [label |-> "Quickstart", slug |-> "quickstart"],
     [label |-> "How-To Guides", slug |-> "how-to"],
     [label |-> "Configuration", slug |-> "configuration"],
     [label |-> "Code Research", slug |-> "code-research"],
     [label |-> "Benchmark", slug |-> "benchmark"],
     [label |-> "Under the Hood", slug |-> "under-the-hood"],
     [label |-> "Origin Story", slug |-> "origin-story"],
     [label |-> "Contributing", slug |-> "contributing"],
     [label |-> "Changelog", link |-> "/changelog"] >>

\* The options record handed to the starlight() integration.
starlight ==
  [ title |-> "ChunkHound",
    description |-> "Modern RAG for your codebase - semantic and regex search via MCP",
    logo |-> [light |-> "./public/wordmark.svg", dark |-> "./public/wordmark-dark.svg", replacesTitle |-> TRUE],
    favicon |-> "/favicon.svg",
    customCss |-> <<"./src/styles/colors.css", "./src/styles/changelog.css">>,
    expressiveCode |-> [themes |-> <<"github-light", "github-dark">>],
    social |-> <<[icon |-> "github", label |-> "GitHub", href |-> "https://github.com/chunkhound/chunkhound"]>>,
    head |-> head,
    sidebar |-> sidebar ]

\* The record the module exports: defineConfig returns its argument.
defineConfig ==
  [ site |-> "https://chunkhound.github.io",
    base |-> "/",
    redirects |-> redirects,
    integrations |-> << [name |-> "react"], [name |-> "starlight", options |-> starlight] >> ]

(***************************************************************************)
(* LatestChanges                                                           *)
(***************************************************************************)
\* Element constructors: an element has a tag, attributes and children; a
\* text node has only its text.
Text(s) == [text |-> s]
El(tag, children) == [tag |-> tag, children |-> children]
ElC(tag, cls, children) == [tag |-> tag, className |-> cls, children |-> children]

\* "latest-changes", the literal head of the template on the root element.
BaseClass == <<"l", "a", "t", "e", "s", "t", "-", "c", "h", "a", "n", "g", "e", "s">>

\* The className texts callers pass: empty, single classes, the base class
\* itself, several classes, and texts with leading, trailing, repeated or
\* only white space.
ClassNames ==
  { <<>>, <<"a">>, <<"a", "b">>, BaseClass,
    <<"a", " ", "b">>, <<"a", " ", "a">>, <<" ">>,
    <<" ", "a">>, <<"a", " ">>, <<"b", " ", " ", "a">> }

\* LatestChangesProps: className is optional.  An omitted className is the
\* empty set, a given one the singleton of its text.
LatestChangesProps == {{}} \cup {{s} : s \in ClassNames}

\* Variant of the destructuring without the default: an omitted className
\* is interpolated as the text "undefined".
ClassNameOfNoDefault(props) ==
  IF props = {} THEN <<"u", "n", "d", "e", "f", "i", "n", "e", "d">>
  ELSE CHOOSE s \in props : TRUE

\* Destructuring default: ({ className = "" }).
ClassNameOf(props) == IF props = {} THEN <<>> ELSE CHOOSE s \in props : TRUE

\* Variants of the root class attribute: the separator left out, and the
\* classes joined only when there is a className.
RootClassUnseparated(className) == BaseClass \o className

RootClassJoined(className) ==
  IF className = <<>> THEN BaseClass ELSE BaseClass \o <<" ">> \o className

\* Variant of the root class attribute with the className put first.
RootClassPrefixed(className) == className \o <<" ">> \o BaseClass

\* `latest-changes ${className}`
RootClass(className) == BaseClass \o <<" ">> \o className

\* Variant of a card that renders no highlight items.
ChangeCardNoHighlights(title, icon, summary, highlights) ==
  ElC("div", "change-card",
    << ElC("div", "change-card-header",
         << El("h3", <<Text(title)>>),
            ElC("span", "rocket-icon", <<Text(icon)>>) >>),
       ElC("div", "change-card-content",
         << ElC("div", "change-summary", <<Text(summary)>>),
            ElC("ul", "change-highlights", <<>>) >>) >>)

\* One <div className="change-card"> subtree; the three cards of the grid
\* share this shape and differ in their texts only.
ChangeCard(title, icon, summary, highlights) ==
  ElC("div", "change-card",
    << ElC("div", "change-card-header",
         << El("h3", <<Text(title)>>),
            ElC("span", "rocket-icon", <<Text(icon)>>) >>),
       ElC("div", "change-card-content",
         << ElC("div", "change-summary", <<Text(summary)>>),
            ElC("ul", "change-highlights",
              [i \in DOMAIN highlights |-> ElC("li", "highlight-item", <<Text(highlights[i])>>)]) >>) >>)

ScalableCodeAnalysis ==
  ChangeCard("Scalable Code Analysis", "U+1F50D",
    "Map-reduce synthesis breaks complex queries into parallel subtasks, preventing context collapse on multi-million LOC codebases.",
    << "Numbered citations [1][2][3] replace verbose file.py:123 references",
       "New chunkhound research CLI command for direct code analysis",
       "Automatic query expansion with deduplication casts wider semantic nets" >>)

\* Variant of the second card that repeats the title of the first and has
\* lost its last highlight.
IndexingPerformanceCopied ==
  ChangeCard("Scalable Code Analysis", "U+26A1",
    "10-100x faster indexing via native git bindings, parallel directory discovery, and ProcessPoolExecutor for CPU-bound parsing.",
    << "RapidYAML parser handles large k8s manifests 10-100x faster than tree-sitter",
       "7 new AST-aware parsers: Swift, Objective-C, Zig, Haskell, HCL, Vue, PHP (29+ total)" >>)

IndexingPerformance ==
  ChangeCard("Indexing Performance", "U+26A1",
    "10-100x faster indexing via native git bindings, parallel directory discovery, and ProcessPoolExecutor for CPU-bound parsing.",
    << "RapidYAML parser handles large k8s manifests 10-100x faster than tree-sitter",
       "7 new AST-aware parsers: Swift, Objective-C, Zig, Haskell, HCL, Vue, PHP (29+ total)",
       "Provider-aware embedding batching optimizes API throughput (OpenAI: 8, VoyageAI: 40)" >>)

ProductionTooling ==
  ChangeCard("Production Tooling", "U+1F6E0 U+FE0F",
    "New CLI commands and integrations for production workflows and debugging.",
    << "simulate (dry-run), diagnose (compare ChunkHound vs git rules), calibrate (auto-tune batch sizes)",
       "TEI reranker format support - two-stage retrieval with cross-encoder, no vendor lock-in",
       "Repo-aware gitignore engine prevents rule leakage between sibling repos" >>)

\* <div className="latest-changes-header">
Header ==
  ElC("div", "latest-changes-header",
    << El("h2", <<Text("Latest Updates")>>),
       El("p", <<Text("Stay up to date with ChunkHound's latest features and improvements.")>>) >>)

\* Variant of the grid with the last card left out.
GridTwoCards ==
  ElC("div", "latest-changes-grid",
    << ScalableCodeAnalysis, IndexingPerformance >>)

\* <div className="latest-changes-grid">
Grid ==
  ElC("div", "latest-changes-grid",
    << ScalableCodeAnalysis, IndexingPerformance, ProductionTooling >>)

\* Variant of the link wrapper with a second link, to the site root.
ViewAllLinkWithHome ==
  ElC("div", "view-all-link",
    << [tag |-> "a", href |-> "./changelog", className |-> "btn-secondary",
        children |-> <<Text("View Full Changelog U+2192")>>],
       [tag |-> "a", href |-> "/", className |-> "btn-secondary",
        children |-> <<Text("Home")>>] >>)

\* <div className="view-all-link">
ViewAllLink ==
  ElC("div", "view-all-link",
    << [tag |-> "a", href |-> "./changelog", className |-> "btn-secondary",
        children |-> <<Text("View Full Changelog U+2192")>>] >>)

\* Variant of the render function that numbers its calls in the root class.
LatestChangesCounted(props) ==
  ElC("div", RootClass(ClassNameOf(props)) \o [i \in 1..Len(log) |-> "a"],
      << Header, Grid, ViewAllLink >>)

\* Variant of the render function with the link above the cards.
LatestChangesLinkFirst(props) ==
  ElC("div", RootClass(ClassNameOf(props)), << Header, ViewAllLink, Grid >>)

\* Variant of the render function that shows the link only when no
\* className text is given.
LatestChangesLinkByClass(props) ==
  ElC("div", RootClass(ClassNameOf(props)),
      IF ClassNameOf(props) = <<>> THEN << Header, Grid, ViewAllLink >>
      ELSE << Header, Grid >>)

\* The render function: the element tree returned for given props.
LatestChanges(props) ==
  ElC("div", RootClass(ClassNameOf(props)), << Header, Grid, ViewAllLink >>)

(***************************************************************************)
(* The state machine.  config is the record exported by astro.config.mjs;  *)
(* log is the sequence of render calls made so far, each with the props    *)
(* it was given and the tree it returned.                                  *)
(***************************************************************************)
Init ==
  /\ config = defineConfig
  /\ log = <<>>

\* Variant of a call that reverses the card list in place, so that every
\* second call renders the cards in the opposite order.
RenderReversing(props) ==
  /\ Len(log) < MaxRenders
  /\ LET tree == LatestChanges(props)
         cards == tree.children[2].children
         reversed == [k \in DOMAIN cards |-> cards[Len(cards) + 1 - k]]
     IN  log' = Append(log, [props |-> props,
                             tree |-> IF Len(log) % 2 = 0 THEN tree
                                      ELSE [tree EXCEPT !.children[2].children = reversed]])
  /\ UNCHANGED config

\* Variant of a call whose className has no default: a call without
\* className ends in an error instead of a tree.
RenderWithoutDefault(props) ==
  /\ Len(log) < MaxRenders
  /\ log' = Append(log, IF props = {}
                        THEN [props |-> props, error |-> "TypeError"]
                        ELSE [props |-> props, tree |-> LatestChanges(props)])
  /\ UNCHANGED config

\* Variant of a call that registers the panel in the sidebar of the shared
\* configuration record.
RenderRegistering(props) ==
  /\ Len(log) < MaxRenders
  /\ log' = Append(log, [props |-> props, tree |-> LatestChanges(props)])
  /\ config' = [config EXCEPT !.integrations[2].options.sidebar =
                  Append(@, [label |-> "Latest Updates", link |-> "./changelog"])]

\* Variant of a call that keeps the class names of earlier calls: the
\* className of the call before is put in front of the one given.
RenderAccumulating(props) ==
  /\ Len(log) < MaxRenders
  /\ LET earlier == IF log = <<>> THEN <<>>
                    ELSE ClassNameOf(log[Len(log)].props) \o <<" ">>
         className == earlier \o ClassNameOf(props)
     IN  log' = Append(log, [props |-> props,
                             tree |-> [LatestChanges(props) EXCEPT
                                         !.className = RootClass(className)]])
  /\ UNCHANGED config

\* One call of the component by the rendering runtime.
Render(props) ==
  /\ Len(log) < MaxRenders
  /\ log' = Append(log, [props |-> props, tree |-> LatestChanges(props)])
  /\ UNCHANGED config

Next == \E props \in LatestChangesProps : Render(props)

Spec == Init /\ [][Next]_vars

(***************************************************************************)
(* Observers of a rendered tree and of the configuration, as a test or    *)
(* the consuming framework would query them.                               *)
(***************************************************************************)
RECURSIVE Flatten(_)
Flatten(seqs) == IF seqs = <<>> THEN <<>> ELSE Head(seqs) \o Flatten(Tail(seqs))

\* The nodes of a forest in document order (pre-order).
RECURSIVE Walk(_)
Walk(nodes) ==
  IF nodes = <<>> THEN <<>>
  ELSE LET n == Head(nodes)
           below == IF "children" \in DOMAIN n THEN n.children ELSE <<>>
       IN  <<n>> \o Walk(below \o Tail(nodes))

\* All nodes strictly below e, in document order.
Descendants(e) == Walk(e.children)

HasClass(n, cls) == "className" \in DOMAIN n /\ n.className = cls
HasTag(n, tag) == "tag" \in DOMAIN n /\ n.tag = tag

ByClass(e, cls) == SelectSeq(Descendants(e), LAMBDA n : HasClass(n, cls))
ByTag(e, tag) == SelectSeq(Descendants(e), LAMBDA n : HasTag(n, tag))

\* The texts directly inside an element.
TextsOf(e) == [i \in DOMAIN e.children |-> e.children[i].text]

CardsOf(tree) == ByClass(tree, "change-card")
ChildCardsOf(e) == SelectSeq(e.children, LAMBDA n : HasClass(n, "change-card"))
TitlesOf(card) == Flatten([i \in DOMAIN ByTag(card, "h3") |-> TextsOf(ByTag(card, "h3")[i])])
IconsOf(card) == Flatten([i \in DOMAIN ByClass(card, "rocket-icon") |-> TextsOf(ByClass(card, "rocket-icon")[i])])
SummariesOf(card) == Flatten([i \in DOMAIN ByClass(card, "change-summary") |-> TextsOf(ByClass(card, "change-summary")[i])])
HighlightsOf(card) == Flatten([i \in DOMAIN ByClass(card, "highlight-item") |-> TextsOf(ByClass(card, "highlight-item")[i])])

\* The tokens of a class attribute: its maximal runs of non-space
\* characters, in order.
RECURSIVE Tokens(_)
Tokens(s) ==
  IF s = <<>> THEN <<>>
  ELSE IF Head(s) = " " THEN Tokens(Tail(s))
  ELSE LET rest == Tokens(Tail(s))
       IN  IF Len(s) > 1 /\ s[2] # " " THEN <<(<<Head(s)>> \o Head(rest))>> \o Tail(rest)
           ELSE <<(<<Head(s)>>)>> \o rest

\* The class list of a class attribute: its tokens, each kept at its first
\* occurrence only (an ordered set).
RECURSIVE FirstOccurrences(_)
FirstOccurrences(ts) ==
  IF ts = <<>> THEN <<>>
  ELSE LET init == FirstOccurrences(SubSeq(ts, 1, Len(ts) - 1))
           last == ts[Len(ts)]
       IN  IF \E k \in DOMAIN init : init[k] = last THEN init ELSE Append(init, last)

ClassList(attr) == FirstOccurrences(Tokens(attr))

HasSpace(s) == \E i \in DOMAIN s : s[i] = " "

Range(f) == {f[k] : k \in DOMAIN f}

\* The sidebar the starlight integration of a configuration was given.
NavigationOf(cfg) ==
  LET ints == SelectSeq(cfg.integrations, LAMBDA i : i.name = "starlight")
  IN  ints[1].options.sidebar

Omitted(i) == log[i].props = {}
Given(i) == log[i].props # {}

(***************************************************************************)
(* Properties of LatestChanges                                             *)
(***************************************************************************)
CardIsFilled(card) ==
  /\ Len(TitlesOf(card)) = 1 /\ TitlesOf(card)[1] # ""
  /\ Len(IconsOf(card)) = 1 /\ IconsOf(card)[1] # ""
  /\ Len(SummariesOf(card)) = 1 /\ SummariesOf(card)[1] # ""
  /\ HighlightsOf(card) # <<>>

\* C1: whatever className a render was given (omitted, empty or any text),
\* its tree contains exactly 3 cards, titled Scalable Code Analysis,
\* Indexing Performance and Production Tooling in this order, and every card
\* has a non-empty title, icon and summary and a non-empty highlight list.
C1_ThreeFilledCardsInOrder ==
  \A i \in DOMAIN log :
    LET cards == CardsOf(log[i].tree)
    IN  /\ Len(cards) = 3
        /\ Flatten([k \in DOMAIN cards |-> TitlesOf(cards[k])])
             = <<"Scalable Code Analysis", "Indexing Performance", "Production Tooling">>
        /\ \A k \in DOMAIN cards : CardIsFilled(cards[k])

\* Renders with an omitted, an empty and a spaced className have all happened.
C1_Witness ==
  /\ \E i \in DOMAIN log : Given(i) /\ HasSpace(ClassNameOf(log[i].props))
                            /\ Len(CardsOf(log[i].tree)) = 3
  /\ \E i \in DOMAIN log : Omitted(i) \/ log[i].props = {<<>>}

\* C2: two render calls given the identical className input return
\* structurally identical trees.
C2_SameInputSameTree ==
  \A i, j \in DOMAIN log :
    log[i].props = log[j].props => log[i].tree = log[j].tree

\* The component has been rendered twice with the same non-empty className.
C2_Witness ==
  \E i, j \in DOMAIN log :
    i # j /\ log[i].props = log[j].props /\ Given(i) /\ ClassNameOf(log[i].props) # <<>>

\* C3 as stated: a non-empty className is, verbatim, an additional token of
\* the root's class list; with className omitted the class list is the base
\* class alone.
C3_Original ==
  \A i \in DOMAIN log :
    LET className == ClassNameOf(log[i].props)
        classList == ClassList(log[i].tree.className)
    IN  /\ (Given(i) /\ className # <<>>) =>
             \E k \in 2..Len(classList) : classList[k] = className
        /\ Omitted(i) => classList = <<BaseClass>>

\* C3 (amended): a non-empty className that has no white space and is not
\* the base class is, verbatim, the one additional token of the root's class
\* list, after the base class; with className omitted the class list is the
\* base class alone.
C3_SingleTokenClassName ==
  \A i \in DOMAIN log :
    LET className == ClassNameOf(log[i].props)
        classList == ClassList(log[i].tree.className)
    IN  /\ (Given(i) /\ className # <<>> /\ ~HasSpace(className) /\ className # BaseClass) =>
             classList = <<BaseClass, className>>
        /\ Omitted(i) => classList = <<BaseClass>>

\* A space-free className of two characters and an omitted one were rendered.
C3_Witness ==
  /\ \E i \in DOMAIN log :
       /\ Given(i) /\ Len(ClassNameOf(log[i].props)) = 2
       /\ ~HasSpace(ClassNameOf(log[i].props))
       /\ Len(ClassList(log[i].tree.className)) = 2
  /\ \E i \in DOMAIN log : Omitted(i)

\* C4: a render with no className yields a root class attribute that is
\* exactly "latest-changes " (the base class and one trailing space).
C4_DefaultClassAttribute ==
  \A i \in DOMAIN log :
    Omitted(i) =>
      log[i].tree.className
        = <<"l", "a", "t", "e", "s", "t", "-", "c", "h", "a", "n", "g", "e", "s", " ">>

\* The first render ever made had no className and returned a root div.
C4_Witness ==
  /\ Len(log) >= 1
  /\ Omitted(1)
  /\ log[1].tree.tag = "div"

\* C5 as stated: with no className the root element has exactly 3 child
\* card elements.
C5_Original ==
  \A i \in DOMAIN log :
    Omitted(i) => Len(ChildCardsOf(log[i].tree)) = 3

\* C5 (amended): with no className the rendered tree has exactly 3 card
\* elements, and they are the children of the grid element, the second of
\* the root's three children (header, grid, link wrapper); none is a child
\* of the root itself.
C5_ThreeCardsInGrid ==
  \A i \in DOMAIN log :
    Omitted(i) =>
      LET root == log[i].tree
      IN  /\ Len(CardsOf(root)) = 3
          /\ Len(root.children) = 3
          /\ HasClass(root.children[1], "latest-changes-header")
          /\ HasClass(root.children[2], "latest-changes-grid")
          /\ HasClass(root.children[3], "view-all-link")
          /\ root.children[2].children = CardsOf(root)
          /\ ChildCardsOf(root) = <<>>

\* Only className-less renders were made, at least two of them.
C5_Witness ==
  /\ Len(log) >= 2
  /\ \A i \in DOMAIN log : Omitted(i) /\ Len(ChildCardsOf(log[i].tree.children[2])) = 3

(***************************************************************************)
(* Properties of the site configuration                                    *)
(***************************************************************************)
\* C6: no redirect maps a path to itself, and no key of the redirects map
\* is also one of its values.
C6_NoSelfOrChainedRedirect ==
  /\ \A k \in DOMAIN config.redirects : config.redirects[k] # k
  /\ DOMAIN config.redirects \cap Range(config.redirects) = {}

\* The redirects map has an entry, and its target is not redirected further.
C6_Witness ==
  \E k \in DOMAIN config.redirects :
    config.redirects[k] \notin DOMAIN config.redirects

\* C7: the redirects map is the single pair
\* /code-expert-agent -> /code-research.
C7_SingleRedirect ==
  /\ DOMAIN config.redirects = {"/code-expert-agent"}
  /\ config.redirects["/code-expert-agent"] = "/code-research"

\* The configuration has been constructed with one redirect.
C7_Witness ==
  /\ Cardinality(DOMAIN config.redirects) = 1
  /\ config.site = "https://chunkhound.github.io"

\* C8: no two entries of the top-level sidebar have the same label.
C8_UniqueLabels ==
  LET nav == NavigationOf(config)
  IN  \A i, j \in DOMAIN nav : nav[i].label = nav[j].label => i = j

\* The sidebar has several entries, among them Quickstart and Changelog.
C8_Witness ==
  LET nav == NavigationOf(config)
  IN  /\ Len(nav) = 9
      /\ nav[1].label = "Quickstart"
      /\ nav[Len(nav)].label = "Changelog"

\* C9: every sidebar entry has a local slug or an external link, never both
\* and never neither.
C9_ExactlyOneTarget ==
  LET nav == NavigationOf(config)
  IN  \A i \in DOMAIN nav :
        ("slug" \in DOMAIN nav[i]) # ("link" \in DOMAIN nav[i])

\* Both target kinds occur in the sidebar.
C9_Witness ==
  LET nav == NavigationOf(config)
  IN  /\ \E i \in DOMAIN nav : "slug" \in DOMAIN nav[i]
      /\ \E i \in DOMAIN nav : "link" \in DOMAIN nav[i]

\* C10: a render call has no side effect: it leaves the configuration
\* record as it was, leaves the trees returned earlier as they were, and
\* renders the same card data that every earlier call rendered.
C10_RenderHasNoSideEffect ==
  [][ /\ config' = config
      /\ \A i \in DOMAIN log :
           /\ log'[i] = log[i]
           /\ CardsOf(log'[Len(log')].tree) = CardsOf(log[i].tree) ]_vars

\* Renders with different className values followed one another.
C10_Witness ==
  /\ Len(log) >= 2
  /\ ClassNameOf(log[1].props) # ClassNameOf(log[2].props)
  /\ config = defineConfig

(***************************************************************************)
(* Further properties of LatestChanges                                     *)
(***************************************************************************)
\* C11: the render function has no error outcome: whatever className a call
\* was given (omitted, empty or any text) it returned a tree, a root div,
\* and while calls are followed every input can be rendered.
C11_NoErrorOutcome ==
  /\ \A i \in DOMAIN log :
       /\ DOMAIN log[i] = {"props", "tree"}
       /\ log[i].tree.tag = "div"
  /\ Len(log) < MaxRenders =>
       \A props \in LatestChangesProps : ENABLED Render(props)

\* Calls with an omitted className and with white space only have returned.
C11_Witness ==
  /\ \E i \in DOMAIN log : Omitted(i) /\ "tree" \in DOMAIN log[i]
  /\ \E i \in DOMAIN log : log[i].props = {<<" ">>} /\ "tree" \in DOMAIN log[i]

\* The three cards in source order.
SourceCards == << ScalableCodeAnalysis, IndexingPerformance, ProductionTooling >>

\* C13 as stated: the root's children are, in this order, the header, the
\* cards themselves and a trailing link element.
C13_Original ==
  \A i \in DOMAIN log :
    LET kids == log[i].tree.children
    IN  /\ Len(kids) = 5
        /\ HasClass(kids[1], "latest-changes-header")
        /\ SubSeq(kids, 2, 4) = SourceCards
        /\ HasTag(kids[5], "a")

\* C13 (amended): the root's children are, in this order, a header (the
\* title 'Latest Updates' and a subtitle), a grid element whose children are
\* the three cards in source order, and a trailing wrapper element whose
\* only child is the link.
C13_HeaderGridLink ==
  \A i \in DOMAIN log :
    LET kids == log[i].tree.children
    IN  /\ Len(kids) = 3
        /\ HasClass(kids[1], "latest-changes-header")
        /\ Len(kids[1].children) = 2
        /\ HasTag(kids[1].children[1], "h2")
        /\ TextsOf(kids[1].children[1]) = <<"Latest Updates">>
        /\ HasTag(kids[1].children[2], "p")
        /\ TextsOf(kids[1].children[2]) # <<>>
        /\ HasClass(kids[2], "latest-changes-grid")
        /\ kids[2].children = SourceCards
        /\ HasClass(kids[3], "view-all-link")
        /\ Len(kids[3].children) = 1
        /\ HasTag(kids[3].children[1], "a")

\* A tree with header, grid and link wrapper was rendered for a className of
\* several classes.
C13_Witness ==
  \E i \in DOMAIN log :
    /\ Len(Tokens(ClassNameOf(log[i].props))) = 2
    /\ Len(log[i].tree.children) = 3
    /\ Len(log[i].tree.children[2].children) = 3

\* The link elements of a tree, the root included if it is one.
LinksOf(tree) ==
  (IF HasTag(tree, "a") THEN <<tree>> ELSE <<>>) \o ByTag(tree, "a")

\* C14: whatever className a render was given, its tree contains exactly
\* one link element, and that link targets ./changelog.
C14_SingleChangelogLink ==
  \A i \in DOMAIN log :
    LET links == LinksOf(log[i].tree)
    IN  /\ Len(links) = 1
        /\ "href" \in DOMAIN links[1]
        /\ links[1].href = "./changelog"

\* Two trees with a link were rendered, for different className inputs.
C14_Witness ==
  \E i, j \in DOMAIN log :
    /\ log[i].props # log[j].props
    /\ LinksOf(log[i].tree) # <<>>
    /\ LinksOf(log[j].tree) # <<>>

\* C15: for every className given, with or without spaces and leading or
\* trailing white space, the root's class attribute is exactly
\* "latest-changes " followed by the className, so that the base class is
\* the first token.
C15_ClassIsBaseThenClassName ==
  \A i \in DOMAIN log :
    LET attr == log[i].tree.className
        prefix == <<"l", "a", "t", "e", "s", "t", "-", "c", "h", "a", "n", "g", "e", "s", " ">>
    IN  Given(i) =>
          /\ attr = prefix \o ClassNameOf(log[i].props)
          /\ Tokens(attr)[1] = BaseClass

\* Renders with leading, trailing and inner white space were made.
C15_Witness ==
  /\ \E i \in DOMAIN log :
       LET s == ClassNameOf(log[i].props)
       IN  Given(i) /\ Len(s) > 1 /\ s[1] = " "
  /\ \E i \in DOMAIN log :
       LET s == ClassNameOf(log[i].props)
       IN  Given(i) /\ Len(s) > 1 /\ s[Len(s)] = " "

\* A tree with its root class attribute blanked.
WithoutRootClass(tree) == [tree EXCEPT !.className = <<>>]

\* C16: the className influences the root's class attribute only: the trees
\* of any two renders are identical once that attribute is set aside.
C16_OnlyRootClassDepends ==
  \A i, j \in DOMAIN log :
    WithoutRootClass(log[i].tree) = WithoutRootClass(log[j].tree)

\* Two renders with different className texts gave different class
\* attributes.
C16_Witness ==
  \E i, j \in DOMAIN log :
    /\ Given(i) /\ Given(j)
    /\ log[i].tree.className # log[j].tree.className

\* C17: a render with className set to the empty string returns exactly the
\* tree of a render with className omitted.
C17_EmptyEqualsOmitted ==
  \A i, j \in DOMAIN log :
    (Omitted(i) /\ log[j].props = {<<>>}) => log[i].tree = log[j].tree

\* One render had no className and another the empty string.
C17_Witness ==
  \E i, j \in DOMAIN log :
    /\ Omitted(i) /\ log[j].props = {<<>>}
    /\ log[j].tree.tag = "div"

\* C18: the result of a render is independent of the calls before it: after
\* any sequence of earlier renders, also interleaved ones, a render with
\* props c has returned the tree of a first-ever render with c: the tree of
\* the first call of this run if that call had c, and in any case the root
\* div with class "latest-changes " and c over header, grid and link.
C18_HistoryIndependent ==
  \A i \in DOMAIN log :
    /\ log[i].props = log[1].props => log[i].tree = log[1].tree
    /\ log[i].tree = ElC("div", RootClass(ClassNameOf(log[i].props)),
                         << Header, Grid, ViewAllLink >>)

\* A render was made after a render with another className.
C18_Witness ==
  /\ Len(log) >= 2
  /\ log[Len(log)].props # log[Len(log) - 1].props
  /\ Given(Len(log) - 1)

\* C23: every card of a rendered tree has exactly 3 highlight items, and
\* the titles of the three cards are pairwise distinct.
C23_ThreeHighlightsDistinctTitles ==
  \A i \in DOMAIN log :
    LET cards == CardsOf(log[i].tree)
        titles == Flatten([k \in DOMAIN cards |-> TitlesOf(cards[k])])
    IN  /\ \A k \in DOMAIN cards :
             /\ Len(ByClass(cards[k], "highlight-item")) = 3
             /\ Len(HighlightsOf(cards[k])) = 3
        /\ Len(titles) = 3
        /\ \A k, l \in DOMAIN titles : titles[k] = titles[l] => k = l

\* Cards with highlight items were rendered for the base class as className.
C23_Witness ==
  \E i \in DOMAIN log :
    /\ log[i].props = {BaseClass}
    /\ \E k \in DOMAIN CardsOf(log[i].tree) : HighlightsOf(CardsOf(log[i].tree)[k]) # <<>>

(***************************************************************************)
(* Further properties of the site configuration                            *)
(***************************************************************************)
\* The starlight options of a configuration.
OptionsOf(cfg) ==
  LET ints == SelectSeq(cfg.integrations, LAMBDA i : i.name = "starlight")
  IN  ints[1].options

\* C12: the configuration record is never mutated: in every state, after
\* any sequence of render steps, its title, description, logo, navigation,
\* redirects and head tags are the values it was constructed with, and no
\* step changes the record.
C12_ConfigNeverMutated ==
  /\ OptionsOf(config).title = "ChunkHound"
  /\ OptionsOf(config).description
       = "Modern RAG for your codebase - semantic and regex search via MCP"
  /\ OptionsOf(config).logo
       = [light |-> "./public/wordmark.svg", dark |-> "./public/wordmark-dark.svg",
          replacesTitle |-> TRUE]
  /\ OptionsOf(config).sidebar = sidebar
  /\ OptionsOf(config).head = head
  /\ config.redirects = redirects
  /\ config = defineConfig

\* The configuration has been through as many render steps as are followed,
\* the last of them without className.
C12_Witness ==
  /\ Len(log) = MaxRenders
  /\ Omitted(Len(log))
  /\ Len(config.integrations) = 2
\* The path a sidebar entry points at: its link, or its slug under "/".
PathOf(entry) ==
  IF "link" \in DOMAIN entry THEN entry.link ELSE "/" \o entry.slug

\* C19: every redirect target is the page of a sidebar entry: the new path
\* /code-research is "/" followed by the slug of an entry.
C19_RedirectTargetInSidebar ==
  LET nav == NavigationOf(config)
  IN  \A k \in DOMAIN config.redirects :
        \E i \in DOMAIN nav :
          /\ "slug" \in DOMAIN nav[i]
          /\ config.redirects[k] = "/" \o nav[i].slug

\* The redirect to /code-research exists, and the sidebar has slug entries.
C19_Witness ==
  /\ "/code-research" \in Range(config.redirects)
  /\ \E i \in DOMAIN NavigationOf(config) : "slug" \in DOMAIN NavigationOf(config)[i]

\* C20: no sidebar entry points at a redirected path: the path of no slug
\* or link is a key of the redirects map.
C20_NoSidebarEntryRedirected ==
  LET nav == NavigationOf(config)
  IN  \A i \in DOMAIN nav : PathOf(nav[i]) \notin DOMAIN config.redirects

\* There is a redirected path, and sidebar entries of both kinds have paths.
C20_Witness ==
  LET nav == NavigationOf(config)
  IN  /\ "/code-expert-agent" \in DOMAIN config.redirects
      /\ \E i \in DOMAIN nav : PathOf(nav[i]) = "/quickstart"
      /\ \E i \in DOMAIN nav : PathOf(nav[i]) = "/changelog"

\* The target of a sidebar entry: its kind with its slug or link.
TargetOf(entry) ==
  IF "link" \in DOMAIN entry THEN <<"link", entry.link>> ELSE <<"slug", entry.slug>>

\* C21: the targets of the sidebar entries are pairwise distinct: no two
\* entries have the same slug or the same link, and no two point at the
\* same path.
C21_DistinctTargets ==
  LET nav == NavigationOf(config)
  IN  \A i, j \in DOMAIN nav :
        (TargetOf(nav[i]) = TargetOf(nav[j]) \/ PathOf(nav[i]) = PathOf(nav[j])) => i = j

\* The sidebar has eight slug entries and a link entry to compare.
C21_Witness ==
  LET nav == NavigationOf(config)
  IN  /\ Cardinality({i \in DOMAIN nav : TargetOf(nav[i])[1] = "slug"}) = 8
      /\ \E i \in DOMAIN nav : TargetOf(nav[i]) = <<"link", "/changelog">>

\* The identifying attributes of a head tag, each as its name with its value.
IdentifiersOf(entry) ==
  {<<a, entry.attrs[a]>> : a \in DOMAIN entry.attrs \cap {"property", "name"}}

\* C22: every head tag is a meta tag with a content attribute and exactly
\* one identifying attribute, property or name and never both, and the
\* identifying values are pairwise distinct across the list.
C22_HeadTagsWellFormed ==
  LET tags == OptionsOf(config).head
  IN  /\ \A i \in DOMAIN tags :
           /\ tags[i].tag = "meta"
           /\ "content" \in DOMAIN tags[i].attrs
           /\ Cardinality(IdentifiersOf(tags[i])) = 1
      /\ \A i, j \in DOMAIN tags :
           (\E x \in IdentifiersOf(tags[i]), y \in IdentifiersOf(tags[j]) : x[2] = y[2])
             => i = j

\* The head tags have Open Graph properties and Twitter names, and two of
\* the tags carry the same content.
C22_Witness ==
  LET tags == OptionsOf(config).head
  IN  /\ \E i \in DOMAIN tags : "property" \in DOMAIN tags[i].attrs
      /\ \E i \in DOMAIN tags : "name" \in DOMAIN tags[i].attrs
      /\ \E i, j \in DOMAIN tags : i # j /\ tags[i].attrs.content = tags[j].attrs.content

====
